---- MODULE Spec2Model ----
(***************************************************************************)
(* Hierarchy induction and annotation enrichment of castools               *)
(* (src/src/cas/utils/conversion_utils.py): rank assignment over ordered   *)
(* labelsets, per-label cell-id collection, the pairwise parent scan and   *)
(* the propagation of parent links into annotation records; and the id     *)
(* population of a CAS instance (src/src/cas/linkml/data.py).              *)
(*                                                                         *)
(* Python values are modelled as follows.  A dict with insertion order is  *)
(* a sequence of records (one per key, in insertion order).  A rank is the *)
(* string str(n) that calculate_labelset stores, here the sequence of its  *)
(* decimal digits; int() parses it back and <= on two ranks is Python's    *)
(* lexicographic string comparison.  A missing dict key is the value None  *)
(* of the matching shape (NoLabel, NoRank, NoAccession).  The instance of  *)
(* populate_ids is a record whose DOMAIN is the set of keys it has, and an *)
(* id is the sequence of the pieces it is concatenated from.               *)
(***************************************************************************)
EXTENDS Integers, Sequences, FiniteSets, TLC

\* ---------------------------------------------------------------- bounds
MaxLabelsets == 3   \* longest labelset list handed to calculate_labelset_rank
MaxEntries   == 3   \* most entries of a lookup handed to the scan
MaxCell      == 2   \* cell ids are 1..MaxCell
MaxRank      == 1   \* entries of the enricher and the wide scan span MaxRank + 1 ranks
NumLabelsets == 11  \* a labelset list long enough for ranks of two digits
WideCell     == 3   \* cell ids of the entries with two-digit ranks
MaxRecords   == 3   \* most annotation records handed to the enricher
MaxNest      == 2   \* their cell-id sets are the nested sets 1..k, k <= MaxNest
MaxInstanceLabelsets == 2   \* most labelsets of an instance handed to populate_ids

LabelsetNames == {"Class", "Subclass", "Cluster", "Supertype"}
LabelNames    == <<"a", "b", "c", "d", "e", "f">>

\* ------------------------------------------------------- Python helpers
NoLabel     == "None"
NoRank      == <<>>
NoAccession == <<>>

\* str(n) for a non-negative int: its decimal digits, most significant first
RECURSIVE str(_)
str(n) == IF n < 10 THEN <<n>> ELSE Append(str(n \div 10), n % 10)

\* int(s) for a string of decimal digits
RECURSIVE int(_)
int(s) == IF Len(s) = 0 THEN 0 ELSE 10 * int(SubSeq(s, 1, Len(s) - 1)) + s[Len(s)]

\* Python's s < t on two strings: lexicographic, a proper prefix is smaller
RECURSIVE StrLess(_, _)
StrLess(s, t) ==
    IF Len(t) = 0 THEN FALSE
    ELSE IF Len(s) = 0 THEN TRUE
    ELSE IF s[1] # t[1] THEN s[1] < t[1]
    ELSE StrLess(Tail(s), Tail(t))

\* Python's s <= t on two strings
StrLeq(s, t) == s = t \/ StrLess(s, t)

Range(f) == {f[x] : x \in DOMAIN f}

\* ----------------------------------------------------------------- state
VARIABLES
    pc,                   \* position of the running function
    input_list,           \* the ordered labelset names (labelsets / input_list)
    labelset_rank_dict,   \* result of calculate_labelset_rank
    obs,                  \* anndata.obs: one row per cell, the index is 1..Len(obs)
    labelset_dict,        \* result of calculate_labelset, in insertion order
    current,              \* generate_parent_cell_lookup: position of (k, v)
    remaining,            \* members of the current labelset not yet iterated
    parent_cell_look_up,  \* the lookup dict, in insertion order
    outer,                \* itertools.product: position of (key, value)
    inner,                \* itertools.product: position of (inner_key, inner_value)
    annotation_list,      \* cas["annotations"]
    position,             \* add_parent_hierarchy_to_annotations: next annotation
    instance,             \* populate_ids: the dict it is handed and returns
    ontology_namespace,   \* populate_ids: argument
    ontology_id           \* populate_ids: argument

rankVars    == <<input_list, labelset_rank_dict>>
collectVars == <<obs, labelset_dict, current, remaining>>
scanVars    == <<outer, inner>>
enrichVars  == <<annotation_list, position>>
idsVars     == <<instance, ontology_namespace, ontology_id>>

vars == <<pc, rankVars, collectVars, parent_cell_look_up, scanVars, enrichVars, idsVars>>

RankIdle    == input_list = <<>> /\ labelset_rank_dict = <<>>
CollectIdle == obs = <<>> /\ labelset_dict = <<>> /\ current = 0 /\ remaining = {}
ScanIdle    == outer = 0 /\ inner = 0
EnrichIdle  == annotation_list = <<>> /\ position = 0
IdsIdle     == instance = <<>> /\ ontology_namespace = "" /\ ontology_id = <<>>

\* ------------------------------------------------ calculate_labelset_rank
\* {item: list_length - 1 - rank for rank, item in enumerate(input_list)}:
\* a later occurrence of an item overwrites an earlier one.
LastIndex(lst, item) ==
    CHOOSE i \in 1..Len(lst) :
        lst[i] = item /\ \A k \in 1..Len(lst) : lst[k] = item => k <= i

\* the alternative left commented out at line 24: {item: rank for rank, item in ...}
calculate_labelset_rank_forward(lst) ==
    [item \in Range(lst) |-> LastIndex(lst, item) - 1]

calculate_labelset_rank(lst) ==
    [item \in Range(lst) |-> Len(lst) - 1 - (LastIndex(lst, item) - 1)]

ListsUpTo(S, n) == UNION {[1..k -> S] : k \in 0..n}

InitRank ==
    /\ pc = "rank"
    /\ input_list \in ListsUpTo(LabelsetNames, MaxLabelsets)
    /\ labelset_rank_dict = <<>>
    /\ parent_cell_look_up = <<>>
    /\ CollectIdle /\ ScanIdle /\ EnrichIdle /\ IdsIdle

CalculateLabelsetRank ==
    /\ pc = "rank"
    /\ labelset_rank_dict' = calculate_labelset_rank(input_list)
    /\ pc' = "ranked"
    /\ UNCHANGED <<input_list, collectVars, parent_cell_look_up, scanVars, enrichVars, idsVars>>

NextRank == CalculateLabelsetRank

SpecRank == InitRank /\ [][NextRank]_vars

\* --------------------------------------------------- the lookup's entries
\* HashAccessionManager.generate_accession_id(cell_ids, labelset): an opaque
\* identifier, deterministic and collision-free in its two arguments
generate_accession_id(cell_ids, labelset) == <<labelset, cell_ids>>

\* the entry generate_parent_cell_lookup stores for a label (lines 136-142)
NewEntry(label, cell_ids, accession, rank, term_id, term) ==
    [label |-> label, cell_ids |-> cell_ids, accession |-> accession,
     rank |-> rank, cell_ontology_term_id |-> term_id,
     cell_ontology_term |-> term,
     parent |-> NoLabel, p_accession |-> NoAccession, parent_rank |-> NoRank]

\* value.get("parent"): truthy once update_parent_info has stored a label
HasParent(value) == value.parent # NoLabel

\* position of the entry stored under a key
IndexOf(lk, key) == CHOOSE k \in DOMAIN lk : lk[k].label = key

Keys(lk) == {lk[k].label : k \in DOMAIN lk}

\* ----------------------------------------------------- update_parent_info
update_parent_info(value, parent_key, parent_value) ==
    [value EXCEPT !.parent = parent_key,
                  !.p_accession = parent_value.accession,
                  !.parent_rank = parent_value.rank]

\* ----------------------------------------------------- the cell metadata
Columns     == <<"Class", "Cluster">>   \* the labelset columns of obs
LabelValues == {"T", "t", "B"}          \* label texts, two differing in case only
OntologyTerms == {<<"CL:1", "T cell">>, <<"CL:2", "B cell">>}

\* str.lower() on the label texts
lower(label) ==
    CASE label = "T" -> "t"
      [] label = "B" -> "b"
      [] OTHER -> label

\* tables of n cells: a label per labelset column and the two ontology columns
Tables(n) ==
    {[i \in 1..n |-> [labels |-> l[i],
                      cell_type_ontology_term_id |-> t[i][1],
                      cell_type |-> t[i][2]]] :
        l \in [1..n -> [Range(Columns) -> LabelValues]],
        t \in [1..n -> OntologyTerms]}

\* the index of a table, in row order
Index(anndata_obs) == [i \in 1..Len(anndata_obs) |-> i]

\* ------------------------------------------------------ calculate_labelset
\* the keys of a dict filled from a list: first occurrences, in order
RECURSIVE KeysInOrder(_)
KeysInOrder(lst) ==
    IF Len(lst) = 0 THEN <<>>
    ELSE IF lst[Len(lst)] \in Range(SubSeq(lst, 1, Len(lst) - 1))
         THEN KeysInOrder(SubSeq(lst, 1, Len(lst) - 1))
         ELSE Append(KeysInOrder(SubSeq(lst, 1, Len(lst) - 1)), lst[Len(lst)])

\* set(obs[item])
Members(anndata_obs, item) ==
    {anndata_obs[i].labels[item] : i \in DOMAIN anndata_obs}

calculate_labelset(anndata_obs, labelsets) ==
    [n \in DOMAIN KeysInOrder(labelsets) |->
        [name |-> KeysInOrder(labelsets)[n],
         members |-> Members(anndata_obs, KeysInOrder(labelsets)[n]),
         rank |-> str(calculate_labelset_rank(labelsets)[KeysInOrder(labelsets)[n]])]]

\* ------------------------------------------------------------ get_cell_ids
\* the index values of the rows whose label matches, compared in lower case
get_cell_ids(anndata_obs, labelset, cell_label) ==
    SelectSeq(Index(anndata_obs),
              LAMBDA i : lower(anndata_obs[i].labels[labelset]) = lower(cell_label))

\* ------------------------------------------ get_cl_annotations_from_anndata
\* the ontology columns of the first row whose label is equal to cell_label
FirstRow(anndata_obs, columns_name, cell_label) ==
    CHOOSE i \in DOMAIN anndata_obs :
        /\ anndata_obs[i].labels[columns_name] = cell_label
        /\ \A k \in DOMAIN anndata_obs :
               anndata_obs[k].labels[columns_name] = cell_label => i <= k

get_cl_annotations_from_anndata(anndata_obs, columns_name, cell_label) ==
    <<anndata_obs[FirstRow(anndata_obs, columns_name, cell_label)].cell_type_ontology_term_id,
      anndata_obs[FirstRow(anndata_obs, columns_name, cell_label)].cell_type>>

\* ---------------------------------------------- generate_parent_cell_lookup
\* lines 131-142 with the rank of the labelset at hand stored on a merge too
CollectLabelLatestRank(lk, anndata_obs, v, label) ==
    IF label \in Keys(lk)
    THEN [lk EXCEPT ![IndexOf(lk, label)].cell_ids =
              @ \cup Range(get_cell_ids(anndata_obs, v.name, label)),
                    ![IndexOf(lk, label)].rank = v.rank]
    ELSE Append(lk,
           NewEntry(label,
                    Range(get_cell_ids(anndata_obs, v.name, label)),
                    generate_accession_id(Range(get_cell_ids(anndata_obs, v.name, label)),
                                          v.name),
                    v.rank,
                    get_cl_annotations_from_anndata(anndata_obs, v.name, label)[1],
                    get_cl_annotations_from_anndata(anndata_obs, v.name, label)[2]))

\* lines 131-142: the body of the inner loop for one label of labelset (k, v)
CollectLabel(lk, anndata_obs, v, label) ==
    IF label \in Keys(lk)
    THEN [lk EXCEPT ![IndexOf(lk, label)].cell_ids =
              @ \cup Range(get_cell_ids(anndata_obs, v.name, label))]
    ELSE Append(lk,
           NewEntry(label,
                    Range(get_cell_ids(anndata_obs, v.name, label)),
                    generate_accession_id(Range(get_cell_ids(anndata_obs, v.name, label)),
                                          v.name),
                    v.rank,
                    get_cl_annotations_from_anndata(anndata_obs, v.name, label)[1],
                    get_cl_annotations_from_anndata(anndata_obs, v.name, label)[2]))

InitCollect ==
    /\ pc = "labelset"
    /\ input_list = Columns
    /\ labelset_rank_dict = <<>>
    /\ \E n \in 1..MaxCell : obs \in Tables(n)
    /\ labelset_dict = <<>>
    /\ current = 0
    /\ remaining = {}
    /\ parent_cell_look_up = <<>>
    /\ ScanIdle /\ EnrichIdle /\ IdsIdle

\* calculate_labelset, then the entry into the loops of line 122
CalculateLabelset ==
    /\ pc = "labelset"
    /\ labelset_rank_dict' = calculate_labelset_rank(input_list)
    /\ labelset_dict' = calculate_labelset(obs, input_list)
    /\ current' = 1
    /\ remaining' = labelset_dict'[1].members
    /\ pc' = "collect"
    /\ UNCHANGED <<input_list, obs, parent_cell_look_up, scanVars, enrichVars, idsVars>>

\* the loops of lines 122-123 step to the next label, labelset after labelset
StepLabel(label) ==
    IF remaining # {label}
    THEN /\ remaining' = remaining \ {label}
         /\ current' = current
         /\ pc' = "collect"
    ELSE IF current < Len(labelset_dict)
    THEN /\ remaining' = labelset_dict[current + 1].members
         /\ current' = current + 1
         /\ pc' = "collect"
    ELSE /\ remaining' = {}
         /\ current' = current
         /\ pc' = "collected"

\* lines 136-142: the label is not a key of the lookup yet
CollectNew ==
    /\ pc = "collect"
    /\ \E label \in remaining :
         /\ label \notin Keys(parent_cell_look_up)
         /\ parent_cell_look_up' =
                CollectLabel(parent_cell_look_up, obs, labelset_dict[current], label)
         /\ StepLabel(label)
    /\ UNCHANGED <<rankVars, obs, labelset_dict, scanVars, enrichVars, idsVars>>

\* lines 132-133: the label text was met under an earlier labelset
CollectMerge ==
    /\ pc = "collect"
    /\ \E label \in remaining :
         /\ label \in Keys(parent_cell_look_up)
         /\ parent_cell_look_up' =
                CollectLabel(parent_cell_look_up, obs, labelset_dict[current], label)
         /\ StepLabel(label)
    /\ UNCHANGED <<rankVars, obs, labelset_dict, scanVars, enrichVars, idsVars>>

NextCollect == CalculateLabelset \/ CollectNew \/ CollectMerge

SpecCollect == InitCollect /\ [][NextCollect]_vars

\* ---------------------------------------------- add_parent_cell_hierarchy
\* lines 247-252: the pair is passed over
SkipPair(value, inner_value) ==
    /\ HasParent(value)
    /\ StrLeq(value.parent_rank, inner_value.rank)

Skipped(lk, i, j) == i = j \/ SkipPair(lk[i], lk[j])

\* lines 254-256 without the test for inequality
SubsetOrEqual(value, inner_value) ==
    value.cell_ids \subseteq inner_value.cell_ids

\* lines 254-256
StrictSubset(value, inner_value) ==
    /\ value.cell_ids # inner_value.cell_ids
    /\ value.cell_ids \subseteq inner_value.cell_ids

\* line 258 with issubset in place of ==
SameOrContained(value, inner_value) ==
    inner_value.cell_ids \subseteq value.cell_ids

\* line 258
SameCells(value, inner_value) == value.cell_ids = inner_value.cell_ids

\* line 259 with the comparison turned round
InnerIsChildFlipped(value, inner_value) == int(inner_value.rank) > int(value.rank)

\* line 259: the inner entry becomes the child of the outer one
InnerIsChild(value, inner_value) == int(inner_value.rank) < int(value.rank)

\* line 261: the outer entry becomes the child of the inner one
OuterIsChild(value, inner_value) == int(value.rank) < int(inner_value.rank)

\* one iteration of the loop body on the pair at positions (i, j); the result
\* is the lookup after the iteration and whether ValueError was raised
VisitPair(lk, i, j) ==
    IF Skipped(lk, i, j) THEN [lk |-> lk, raised |-> FALSE]
    ELSE IF StrictSubset(lk[i], lk[j])
         THEN [lk |-> [lk EXCEPT ![i] = update_parent_info(lk[i], lk[j].label, lk[j])],
               raised |-> FALSE]
    ELSE IF SameCells(lk[i], lk[j])
         THEN IF InnerIsChild(lk[i], lk[j])
              THEN [lk |-> [lk EXCEPT ![j] = update_parent_info(lk[j], lk[i].label, lk[i])],
                    raised |-> FALSE]
              ELSE IF OuterIsChild(lk[i], lk[j])
              THEN [lk |-> [lk EXCEPT ![i] = update_parent_info(lk[i], lk[j].label, lk[j])],
                    raised |-> FALSE]
              ELSE [lk |-> lk, raised |-> TRUE]
    ELSE [lk |-> lk, raised |-> FALSE]

\* itertools.product(items, repeat=2): the pair after (i, j), row by row
NextOuter(lk, i, j) == IF j < Len(lk) THEN i ELSE i + 1
NextInner(lk, i, j) == IF j < Len(lk) THEN j + 1 ELSE 1

\* the whole loop from the pair (i, j) on, as a function of the lookup
RECURSIVE ScanFrom(_, _, _)
ScanFrom(lk, i, j) ==
    IF i > Len(lk) THEN [lk |-> lk, raised |-> FALSE]
    ELSE LET visited == VisitPair(lk, i, j)
         IN  IF visited.raised THEN visited
             ELSE ScanFrom(visited.lk, NextOuter(lk, i, j), NextInner(lk, i, j))

add_parent_cell_hierarchy(lk) == ScanFrom(lk, 1, 1)

\* lookups of n entries over the given cell-id sets, ranks and ontology terms,
\* as generate_parent_cell_lookup leaves them: no parent assigned yet; the
\* owning labelset of an entry is named by its rank
Lookups(n, cellsets, ranks, terms) ==
    {[k \in 1..n |-> NewEntry(LabelNames[k], c[k],
                              generate_accession_id(c[k], str(r[k])), str(r[k]),
                              t[k][1], t[k][2])] :
        c \in [1..n -> cellsets], r \in [1..n -> ranks], t \in [1..n -> terms]}

\* the non-empty sets of cell ids out of 1..n
CellSets(n) == (SUBSET (1..n)) \ {{}}

\* the entries of the scan come from the two last-listed labelsets, whose
\* ranks calculate_labelset stores as str(1) and str(0)
ScanRanks == {0, 1}

InitScan ==
    /\ pc = "scan"
    /\ RankIdle /\ CollectIdle /\ EnrichIdle /\ IdsIdle
    /\ \E n \in 1..MaxEntries :
           parent_cell_look_up \in
               Lookups(n, CellSets(MaxCell), ScanRanks, {<<"CL:1", "T cell">>})
    /\ outer = 1
    /\ inner = 1

Advance ==
    /\ outer' = NextOuter(parent_cell_look_up, outer, inner)
    /\ inner' = NextInner(parent_cell_look_up, outer, inner)
    /\ pc' = IF outer' > Len(parent_cell_look_up) THEN "done" ELSE "scan"

Scanning == pc = "scan" /\ outer \in DOMAIN parent_cell_look_up

\* lines 247-252: continue
PassOver ==
    /\ Scanning
    /\ Skipped(parent_cell_look_up, outer, inner)
    /\ parent_cell_look_up' = VisitPair(parent_cell_look_up, outer, inner).lk
    /\ Advance
    /\ UNCHANGED <<rankVars, collectVars, enrichVars, idsVars>>

\* lines 254-257: the outer entry is a strict subset of the inner one
AssignSuperset ==
    /\ Scanning
    /\ ~Skipped(parent_cell_look_up, outer, inner)
    /\ StrictSubset(parent_cell_look_up[outer], parent_cell_look_up[inner])
    /\ parent_cell_look_up' = VisitPair(parent_cell_look_up, outer, inner).lk
    /\ Advance
    /\ UNCHANGED <<rankVars, collectVars, enrichVars, idsVars>>

\* lines 258-262: equal cell-id sets, different ranks
BreakTie ==
    /\ Scanning
    /\ ~Skipped(parent_cell_look_up, outer, inner)
    /\ SameCells(parent_cell_look_up[outer], parent_cell_look_up[inner])
    /\ ~VisitPair(parent_cell_look_up, outer, inner).raised
    /\ parent_cell_look_up' = VisitPair(parent_cell_look_up, outer, inner).lk
    /\ Advance
    /\ UNCHANGED <<rankVars, collectVars, enrichVars, idsVars>>

\* lines 263-267: equal cell-id sets, equal ranks
RaiseAmbiguity ==
    /\ Scanning
    /\ VisitPair(parent_cell_look_up, outer, inner).raised
    /\ pc' = "raised"
    /\ UNCHANGED <<rankVars, collectVars, parent_cell_look_up, scanVars, enrichVars, idsVars>>

\* neither branch of lines 254-267 applies
Unrelated ==
    /\ Scanning
    /\ ~Skipped(parent_cell_look_up, outer, inner)
    /\ ~StrictSubset(parent_cell_look_up[outer], parent_cell_look_up[inner])
    /\ ~SameCells(parent_cell_look_up[outer], parent_cell_look_up[inner])
    /\ parent_cell_look_up' = VisitPair(parent_cell_look_up, outer, inner).lk
    /\ Advance
    /\ UNCHANGED <<rankVars, collectVars, enrichVars, idsVars>>

\* the scan over entries of the MaxRank + 1 first-listed labelsets of a list
\* of NumLabelsets labelsets: ranks str(NumLabelsets - 1 - MaxRank) and up
InitWide ==
    /\ pc = "scan"
    /\ RankIdle /\ CollectIdle /\ EnrichIdle /\ IdsIdle
    /\ \E n \in 1..MaxEntries :
           parent_cell_look_up \in
               Lookups(n, CellSets(WideCell),
                       (NumLabelsets - 1 - MaxRank)..(NumLabelsets - 1),
                       {<<"CL:1", "T cell">>})
    /\ outer = 1
    /\ inner = 1

NextScan == PassOver \/ AssignSuperset \/ BreakTie \/ RaiseAmbiguity \/ Unrelated

SpecScan == InitScan /\ [][NextScan]_vars

SpecWide == InitWide /\ [][NextScan]_vars

\* ------------------------------------------------ generate_cas_annotations
NoTerm == "None"

\* the record appended for a label (lines 186-208), with the fields that
\* add_parent_hierarchy_to_annotations reads or writes; a key that is not in
\* the record holds None
NewAnnotation(entry) ==
    [cell_label |-> entry.label,
     cell_set_accession |-> entry.accession,
     cell_ontology_term_id |-> entry.cell_ontology_term_id,
     cell_ontology_term |-> entry.cell_ontology_term,
     parent_cell_set_name |-> NoLabel,
     parent_cell_set_accession |-> NoAccession]

\* ------------------------------------ add_parent_hierarchy_to_annotations
\* parent_cell_look_up.get(key, {})[field], None when the key is missing
LookUpGet(lk, key, field, none) ==
    IF key \in Keys(lk) THEN lk[IndexOf(lk, key)][field] ELSE none

\* line 288: if parent and p_accession
ParentResolved(lk, annotation) ==
    /\ LookUpGet(lk, annotation.cell_label, "parent", NoLabel) # NoLabel
    /\ LookUpGet(lk, annotation.cell_label, "p_accession", NoAccession) # NoAccession

\* lines 298-302 without the comparison of cell_ontology_term
RepeatsParentTermOnIdOnly(lk, annotation) ==
    LookUpGet(lk, LookUpGet(lk, annotation.cell_label, "parent", NoLabel),
              "cell_ontology_term_id", NoTerm) = annotation.cell_ontology_term_id

\* lines 298-302: the record repeats both ontology fields of its parent entry
RepeatsParentTerm(lk, annotation) ==
    /\ LookUpGet(lk, LookUpGet(lk, annotation.cell_label, "parent", NoLabel),
                 "cell_ontology_term_id", NoTerm) = annotation.cell_ontology_term_id
    /\ LookUpGet(lk, LookUpGet(lk, annotation.cell_label, "parent", NoLabel),
                 "cell_ontology_term", NoTerm) = annotation.cell_ontology_term

\* lines 290-295 with the record's own accession in place of p_accession
AttachParentFieldsOwnAccession(lk, annotation) ==
    [annotation EXCEPT
        !.parent_cell_set_name = LookUpGet(lk, annotation.cell_label, "parent", NoLabel),
        !.parent_cell_set_accession = annotation.cell_set_accession]

\* lines 290-295
AttachParentFields(lk, annotation) ==
    [annotation EXCEPT
        !.parent_cell_set_name = LookUpGet(lk, annotation.cell_label, "parent", NoLabel),
        !.parent_cell_set_accession =
            LookUpGet(lk, annotation.cell_label, "p_accession", NoAccession)]

\* lines 303-304
PopTerms(annotation) ==
    [annotation EXCEPT !.cell_ontology_term_id = NoTerm,
                       !.cell_ontology_term = NoTerm]

\* lines 285-304: the loop body for one annotation
EnrichAnnotation(lk, annotation) ==
    IF ~ParentResolved(lk, annotation) THEN annotation
    ELSE IF RepeatsParentTerm(lk, annotation)
         THEN PopTerms(AttachParentFields(lk, annotation))
         ELSE AttachParentFields(lk, annotation)

RecordTerms == {<<"CL:1", "T cell">>, <<"CL:1", "T lymphocyte">>}

\* the lookups of completed scans, each with the records generated from it
InitEnrich ==
    /\ pc = "enrich"
    /\ RankIdle /\ CollectIdle /\ ScanIdle /\ IdsIdle
    /\ \E n \in 1..MaxRecords :
         \E lk \in Lookups(n, {1..k : k \in 1..MaxNest}, 0..MaxRank, RecordTerms) :
            LET scanned == add_parent_cell_hierarchy(lk)
            IN  /\ ~scanned.raised
                /\ parent_cell_look_up = scanned.lk
                /\ annotation_list = [k \in 1..n |-> NewAnnotation(lk[k])]
    /\ position = 1

StepAnnotation ==
    /\ position' = position + 1
    /\ pc' = IF position = Len(annotation_list) THEN "enriched" ELSE "enrich"
    /\ UNCHANGED <<rankVars, collectVars, parent_cell_look_up, scanVars, idsVars>>

Enriching == pc = "enrich" /\ position \in DOMAIN annotation_list

\* line 288 fails: the entry under the record's label has no parent
LeaveUnparented ==
    /\ Enriching
    /\ ~ParentResolved(parent_cell_look_up, annotation_list[position])
    /\ annotation_list' = [annotation_list EXCEPT ![position] =
                              EnrichAnnotation(parent_cell_look_up, @)]
    /\ StepAnnotation

\* lines 290-295 only: the parent's ontology fields differ from the record's
AttachParent ==
    /\ Enriching
    /\ ParentResolved(parent_cell_look_up, annotation_list[position])
    /\ ~RepeatsParentTerm(parent_cell_look_up, annotation_list[position])
    /\ annotation_list' = [annotation_list EXCEPT ![position] =
                              EnrichAnnotation(parent_cell_look_up, @)]
    /\ StepAnnotation

\* lines 290-304: the record's ontology fields repeat the parent's
AttachParentAndPrune ==
    /\ Enriching
    /\ ParentResolved(parent_cell_look_up, annotation_list[position])
    /\ RepeatsParentTerm(parent_cell_look_up, annotation_list[position])
    /\ annotation_list' = [annotation_list EXCEPT ![position] =
                              EnrichAnnotation(parent_cell_look_up, @)]
    /\ StepAnnotation

NextEnrich == LeaveUnparented \/ AttachParent \/ AttachParentAndPrune

SpecEnrich == InitEnrich /\ [][NextEnrich]_vars

\* ----------------------------------------------------------- populate_ids
\* ids are strings built by concatenation: the sequence of their pieces,
\* the empty string being <<>>

\* line 170: "CAS:" in ontology_id
HasCasPrefix(id) == \E i \in DOMAIN id : id[i] = "CAS:"

\* d[key] = value on a dict: the key is added when d does not have it
SetItem(d, key, value) ==
    [k \in DOMAIN d \cup {key} |-> IF k = key THEN value ELSE d[k]]

\* line 166: "id" in instance and instance["id"]
HasRootId(inst) == "id" \in DOMAIN inst /\ inst["id"] # <<>>

\* lines 169-172
PopulateRoot(inst, id) ==
    IF "id" \notin DOMAIN inst
    THEN SetItem(inst, "id", IF HasCasPrefix(id) THEN id ELSE <<"CAS:">> \o id)
    ELSE inst

\* lines 175-176: the loop body for one labelset
PopulateLabelset(labelset, namespace) ==
    IF "id" \notin DOMAIN labelset
    THEN SetItem(labelset, "id", <<namespace, ":", labelset["name"]>>)
    ELSE labelset

\* lines 174-176: instance.get("labelsets", []) is a fresh list when the key
\* is missing, so the instance gets no "labelsets" key from the loop
PopulateLabelsets(inst, namespace) ==
    IF "labelsets" \in DOMAIN inst
    THEN [inst EXCEPT !["labelsets"] =
             [k \in DOMAIN @ |-> PopulateLabelset(@[k], namespace)]]
    ELSE inst

\* lines 166-180, for a dict instance
populate_ids(inst, namespace, id) ==
    IF HasRootId(inst) THEN inst
    ELSE PopulateLabelsets(PopulateRoot(inst, id), namespace)

InstanceLabelsetNames == {"Class", "Cluster"}

\* a labelset without "id", with an empty one or with one given before
InstanceLabelsets ==
    {[name |-> n] : n \in InstanceLabelsetNames}
      \cup {[name |-> n, id |-> i] :
               n \in InstanceLabelsetNames, i \in {<<>>, <<"MTG", ":", "given">>}}

InstanceLabelsetLists ==
    UNION {[1..n -> InstanceLabelsets] : n \in 0..MaxInstanceLabelsets}

RootIdsGiven == {<<>>, <<"CAS:", "given">>}

\* dict instances: with or without "id", with or without "labelsets"
Instances ==
    {[title |-> "MTG"]}
      \cup {[title |-> "MTG", id |-> i] : i \in RootIdsGiven}
      \cup {[title |-> "MTG", labelsets |-> l] : l \in InstanceLabelsetLists}
      \cup {[title |-> "MTG", id |-> i, labelsets |-> l] :
               i \in RootIdsGiven, l \in InstanceLabelsetLists}

OntologyIds == {<<"AIT_MTG">>, <<"CAS:", "AIT_MTG">>, <<"x", "CAS:", "AIT_MTG">>}

InitIds ==
    /\ pc = "ids"
    /\ RankIdle /\ CollectIdle /\ ScanIdle /\ EnrichIdle
    /\ parent_cell_look_up = <<>>
    /\ instance \in Instances
    /\ ontology_namespace = "MTG"
    /\ ontology_id \in OntologyIds

\* one call of populate_ids on the instance; the caller may call it again on
\* what it returned
CallPopulateIds ==
    /\ pc \in {"ids", "returned"}
    /\ instance' = populate_ids(instance, ontology_namespace, ontology_id)
    /\ pc' = "returned"
    /\ UNCHANGED <<rankVars, collectVars, parent_cell_look_up, scanVars, enrichVars,
                   ontology_namespace, ontology_id>>

\* lines 166-167: the root has a truthy id, return at once
ReturnAsGiven == HasRootId(instance) /\ CallPopulateIds

\* line 169 fails: the root has the key "id" with an empty value
KeepEmptyRootId ==
    /\ "id" \in DOMAIN instance
    /\ instance["id"] = <<>>
    /\ CallPopulateIds

\* lines 169-176: the root has no key "id"
SetRootId == "id" \notin DOMAIN instance /\ CallPopulateIds

NextIds == ReturnAsGiven \/ KeepEmptyRootId \/ SetRootId

SpecIds == InitIds /\ [][NextIds]_vars

\* ============================================================= properties
\* the entry stored under an entry's parent label
ParentOf(lk, k) == lk[IndexOf(lk, lk[k].parent)]

Parented(lk) == {k \in DOMAIN lk : lk[k].parent # NoLabel}

ProperSubset(s, t) == s \subseteq t /\ s # t

RankNumber(e) == int(e.rank)

\* C1 as stated: whenever entry A has parent B, A's cell-id set is a strict
\* subset of B's, or the two sets are identical and B's rank is strictly less
\* than A's rank.
C1_ParentSupersetLowerRank ==
    \A k \in Parented(parent_cell_look_up) :
        /\ parent_cell_look_up[k].parent \in Keys(parent_cell_look_up)
        /\ \/ ProperSubset(parent_cell_look_up[k].cell_ids,
                           ParentOf(parent_cell_look_up, k).cell_ids)
           \/ /\ parent_cell_look_up[k].cell_ids = ParentOf(parent_cell_look_up, k).cell_ids
              /\ RankNumber(ParentOf(parent_cell_look_up, k)) < RankNumber(parent_cell_look_up[k])

\* C1 amended: at every step of the scan and after it, whenever entry A has
\* parent B, A's cell-id set is a strict subset of B's, or the two sets are
\* identical and B's rank is strictly greater than A's rank.
C1_ParentSupersetHigherRank ==
    \A k \in Parented(parent_cell_look_up) :
        /\ parent_cell_look_up[k].parent \in Keys(parent_cell_look_up)
        /\ \/ ProperSubset(parent_cell_look_up[k].cell_ids,
                           ParentOf(parent_cell_look_up, k).cell_ids)
           \/ /\ parent_cell_look_up[k].cell_ids = ParentOf(parent_cell_look_up, k).cell_ids
              /\ RankNumber(ParentOf(parent_cell_look_up, k)) > RankNumber(parent_cell_look_up[k])

\* a completed scan in which one entry got its parent by strict inclusion and
\* another by the tie-break on equal cell-id sets
C1_Witness ==
    /\ pc = "done"
    /\ \E k \in Parented(parent_cell_look_up) :
           ProperSubset(parent_cell_look_up[k].cell_ids,
                        ParentOf(parent_cell_look_up, k).cell_ids)
    /\ \E k \in Parented(parent_cell_look_up) :
           parent_cell_look_up[k].cell_ids = ParentOf(parent_cell_look_up, k).cell_ids

AmbiguousPair(lk) ==
    \E k, m \in DOMAIN lk :
        k # m /\ lk[k].cell_ids = lk[m].cell_ids /\ lk[k].rank = lk[m].rank

\* C2: a collection holding two distinct entries with identical cell-id sets
\* and identical rank never lets the scan complete normally.
C2_AmbiguityAlwaysRaised ==
    AmbiguousPair(parent_cell_look_up) => pc # "done"

\* the lookup as it was handed to the scan: no entry has a parent
Unparented(lk) ==
    [k \in DOMAIN lk |->
        [lk[k] EXCEPT !.parent = NoLabel, !.p_accession = NoAccession,
                      !.parent_rank = NoRank]]

Orderings(n) == {f \in [1..n -> 1..n] : \A a, b \in 1..n : f[a] = f[b] => a = b}

Reordered(lk, f) == [k \in DOMAIN lk |-> lk[f[k]]]

\* two lookups give every label the same parent, parent accession and rank
SameParents(lk1, lk2) ==
    \A k \in DOMAIN lk1 :
        /\ lk2[IndexOf(lk2, lk1[k].label)].parent = lk1[k].parent
        /\ lk2[IndexOf(lk2, lk1[k].label)].p_accession = lk1[k].p_accession
        /\ lk2[IndexOf(lk2, lk1[k].label)].parent_rank = lk1[k].parent_rank

\* C3: the outcome of the scan is the same for every storage order of the
\* same entries: the same runs raise, and completed runs give every entry the
\* same parent label, parent accession and parent rank.
C3_OrderIndependent ==
    pc \in {"done", "raised"} =>
        \A f \in Orderings(Len(parent_cell_look_up)) :
            /\ add_parent_cell_hierarchy(
                   Reordered(Unparented(parent_cell_look_up), f)).raised
                 = (pc = "raised")
            /\ pc = "done" =>
                 SameParents(parent_cell_look_up,
                             add_parent_cell_hierarchy(
                                 Reordered(Unparented(parent_cell_look_up), f)).lk)

\* following parent links from the entry under a label, for at most n steps,
\* ends at an entry without parent
RECURSIVE ReachesRoot(_, _, _)
ReachesRoot(lk, label, n) ==
    IF label \notin Keys(lk) THEN FALSE
    ELSE IF lk[IndexOf(lk, label)].parent = NoLabel THEN TRUE
    ELSE IF n = 0 THEN FALSE
    ELSE ReachesRoot(lk, lk[IndexOf(lk, label)].parent, n - 1)

\* C4: after the scan completes, following parent links from any entry
\* reaches an unparented entry after finitely many steps; no entry is its own
\* parent.
C4_NoCycles ==
    pc = "done" =>
        \A k \in DOMAIN parent_cell_look_up :
            /\ parent_cell_look_up[k].parent # parent_cell_look_up[k].label
            /\ ReachesRoot(parent_cell_look_up, parent_cell_look_up[k].label,
                           Len(parent_cell_look_up))

\* a completed scan with a chain child -> parent -> grandparent
C4_Witness ==
    /\ pc = "done"
    /\ \E k \in Parented(parent_cell_look_up) :
           ParentOf(parent_cell_look_up, k).parent # NoLabel

\* C8 as stated: when the scan fails with the ambiguity error, no entry
\* carries a parent, parent accession or parent rank.
C8_NothingAssignedOnError ==
    pc = "raised" =>
        \A k \in DOMAIN parent_cell_look_up :
            /\ parent_cell_look_up[k].parent = NoLabel
            /\ parent_cell_look_up[k].p_accession = NoAccession
            /\ parent_cell_look_up[k].parent_rank = NoRank

\* C8 amended: when the scan fails with the ambiguity error, the parents
\* assigned by the pairs visited before the failing pair remain; an entry
\* carries a parent only if it is stored at or before the failing pair's outer
\* entry, or has the cell-id set of such an entry and a lower rank.
C8_OnlyVisitedAssignedOnError ==
    pc = "raised" =>
        \A k \in Parented(parent_cell_look_up) :
            \/ k <= outer
            \/ \E m \in 1..outer :
                   /\ parent_cell_look_up[m].cell_ids = parent_cell_look_up[k].cell_ids
                   /\ RankNumber(parent_cell_look_up[k]) < RankNumber(parent_cell_look_up[m])

\* the error is raised while an entry already carries a parent and a later
\* entry carries none
C8_Witness ==
    /\ pc = "raised"
    /\ Parented(parent_cell_look_up) # {}
    /\ \E k \in DOMAIN parent_cell_look_up : k > outer

\* C10: whenever an entry that already has a parent is given another parent,
\* the new parent's rank is strictly lower than the rank of the one replaced.
C10_OnlyStrengthens ==
    [][\A k \in DOMAIN parent_cell_look_up :
          (/\ pc = "scan"
           /\ parent_cell_look_up[k].parent # NoLabel
           /\ parent_cell_look_up'[k].parent # parent_cell_look_up[k].parent)
          => int(parent_cell_look_up'[k].parent_rank)
               < int(parent_cell_look_up[k].parent_rank)]_vars

StrictSupersets(lk, k) ==
    {m \in DOMAIN lk : ProperSubset(lk[k].cell_ids, lk[m].cell_ids)}

NoEqualCellSets(lk) ==
    \A k, m \in DOMAIN lk : k # m => lk[k].cell_ids # lk[m].cell_ids

\* C9: in a collection without two entries of equal cell-id sets, after the
\* scan an entry has a parent exactly when it has a strict superset, and the
\* parent is a strict superset of minimal rank among all its strict supersets.
C9_MinimalRankSuperset ==
    (pc = "done" /\ NoEqualCellSets(parent_cell_look_up)) =>
        \A k \in DOMAIN parent_cell_look_up :
            /\ (parent_cell_look_up[k].parent # NoLabel)
                 <=> (StrictSupersets(parent_cell_look_up, k) # {})
            /\ parent_cell_look_up[k].parent # NoLabel =>
                 /\ IndexOf(parent_cell_look_up, parent_cell_look_up[k].parent)
                      \in StrictSupersets(parent_cell_look_up, k)
                 /\ \A m \in StrictSupersets(parent_cell_look_up, k) :
                        RankNumber(ParentOf(parent_cell_look_up, k))
                          <= RankNumber(parent_cell_look_up[m])

\* the cell-id set the collector computes for a label of a labelset
CollectedCells(labelset, label) == Range(get_cell_ids(obs, labelset, label))

\* the labels of the n-th labelset the collector has gone through so far
Collected(n) ==
    IF pc = "collected" \/ n < current THEN labelset_dict[n].members
    ELSE IF n = current THEN labelset_dict[n].members \ remaining
    ELSE {}

\* C5: for every labelset, the cell-id sets collected for its distinct label
\* values are pairwise disjoint, and once all its labels are collected their
\* union is the set of all cells.
C5_PartitionPerLabelset ==
    \A n \in DOMAIN labelset_dict :
        /\ \A a, b \in Collected(n) :
               a # b => CollectedCells(labelset_dict[n].name, a)
                          \cap CollectedCells(labelset_dict[n].name, b) = {}
        /\ Collected(n) = labelset_dict[n].members =>
               UNION {CollectedCells(labelset_dict[n].name, a) :
                         a \in labelset_dict[n].members} = DOMAIN obs

\* C7: calculate_labelset_rank maps the name at 0-based position i of a list
\* of n distinct names to rank n - 1 - i: first name n - 1, last name 0, ranks
\* strictly decreasing along the list, one rank per name.
C7_RankFormula ==
    (pc = "ranked" /\ Cardinality(Range(input_list)) = Len(input_list)) =>
        /\ DOMAIN labelset_rank_dict = Range(input_list)
        /\ \A i \in DOMAIN input_list :
               labelset_rank_dict[input_list[i]] = Len(input_list) - i
        /\ \A i, k \in DOMAIN input_list :
               i < k => labelset_rank_dict[input_list[i]] > labelset_rank_dict[input_list[k]]
        /\ Len(input_list) > 0 =>
               /\ labelset_rank_dict[input_list[1]] = Len(input_list) - 1
               /\ labelset_rank_dict[input_list[Len(input_list)]] = 0

\* the ranks of a list of MaxLabelsets distinct names have been computed
C7_Witness ==
    /\ pc = "ranked"
    /\ Len(input_list) = MaxLabelsets
    /\ Cardinality(Range(input_list)) = MaxLabelsets

\* the lookup entry a record was generated from
EntryOfRecord(k) ==
    parent_cell_look_up[IndexOf(parent_cell_look_up, annotation_list[k].cell_label)]

\* the entry of record k has a resolved parent whose two ontology fields
\* equal the ones the record was generated with
RedundantWithParent(k) ==
    /\ EntryOfRecord(k).parent # NoLabel
    /\ EntryOfRecord(k).p_accession # NoAccession
    /\ ParentOf(parent_cell_look_up,
                IndexOf(parent_cell_look_up, annotation_list[k].cell_label)).cell_ontology_term_id
         = EntryOfRecord(k).cell_ontology_term_id
    /\ ParentOf(parent_cell_look_up,
                IndexOf(parent_cell_look_up, annotation_list[k].cell_label)).cell_ontology_term
         = EntryOfRecord(k).cell_ontology_term

\* a record has lost its ontology fields exactly when it has been processed
\* and is redundant with its parent entry; otherwise it has the fields it was
\* generated with, whatever has happened to the records of its ancestors
PrunedOnlyWhenRedundant ==
    \A k \in DOMAIN annotation_list :
        IF k < position /\ RedundantWithParent(k)
        THEN /\ annotation_list[k].cell_ontology_term_id = NoTerm
             /\ annotation_list[k].cell_ontology_term = NoTerm
        ELSE /\ annotation_list[k].cell_ontology_term_id = EntryOfRecord(k).cell_ontology_term_id
             /\ annotation_list[k].cell_ontology_term = EntryOfRecord(k).cell_ontology_term

\* processing a record changes neither the lookup nor any other record
TouchesOwnRecordOnly ==
    /\ parent_cell_look_up' = parent_cell_look_up
    /\ \A k \in DOMAIN annotation_list :
           k # position => annotation_list'[k] = annotation_list[k]

\* C6: the ontology fields are removed from a record only when its entry has
\* a resolved parent and both values equal the parent's; processing a record
\* changes neither the lookup nor the record of the parent, so the records
\* after pruning depend on the lookup alone, not on the order of the list.
C6_PruningOneDirectional ==
    /\ [](pc \in {"enrich", "enriched"} => PrunedOnlyWhenRedundant)
    /\ [][pc = "enrich" => TouchesOwnRecordOnly]_vars

\* a chain child -> parent -> grandparent with equal terms has been pruned,
\* the parent's record before the child's: both have lost their ontology
\* fields and the grandparent's record has kept them
C6_Witness ==
    /\ pc = "enriched"
    /\ \E c, p, g \in DOMAIN annotation_list :
          /\ EntryOfRecord(c).parent = annotation_list[p].cell_label
          /\ EntryOfRecord(p).parent = annotation_list[g].cell_label
          /\ p < c
          /\ annotation_list[c].cell_ontology_term_id = NoTerm
          /\ annotation_list[p].cell_ontology_term_id = NoTerm
          /\ annotation_list[g].cell_ontology_term_id
               = EntryOfRecord(c).cell_ontology_term_id
          /\ annotation_list[g].cell_ontology_term = EntryOfRecord(c).cell_ontology_term

\* the labelsets, by position in labelset_dict, under which the collector has
\* met a label text so far
MetUnder(label) == {n \in DOMAIN labelset_dict : label \in Collected(n)}

FirstOf(S) == CHOOSE n \in S : \A m \in S : n <= m

LastOf(S) == CHOOSE n \in S : \A m \in S : m <= n

\* the merged entry holds the cell ids of all the labelsets it was met under
MergedCellIds ==
    \A k \in DOMAIN parent_cell_look_up :
        /\ MetUnder(parent_cell_look_up[k].label) # {}
        /\ parent_cell_look_up[k].cell_ids =
               UNION {CollectedCells(labelset_dict[n].name, parent_cell_look_up[k].label) :
                         n \in MetUnder(parent_cell_look_up[k].label)}

\* C11 as stated: the cell_ids of an entry are the union of the cell-id sets
\* of all the labelsets its label text was met under, and its rank is the
\* rank of the most recently processed of those labelsets.
C11_MergedRankLatest ==
    /\ MergedCellIds
    /\ \A k \in DOMAIN parent_cell_look_up :
           parent_cell_look_up[k].rank =
               labelset_dict[LastOf(MetUnder(parent_cell_look_up[k].label))].rank

\* C11 amended: the cell_ids of an entry are the union of the cell-id sets of
\* all the labelsets its label text was met under, and its rank is the rank of
\* the first processed of those labelsets.
C11_MergedRankFirst ==
    /\ MergedCellIds
    /\ \A k \in DOMAIN parent_cell_look_up :
           parent_cell_look_up[k].rank =
               labelset_dict[FirstOf(MetUnder(parent_cell_look_up[k].label))].rank

\* a label text met under both labelsets with different cell ids has been
\* merged into one entry
C11_Witness ==
    /\ pc = "collected"
    /\ \E k \in DOMAIN parent_cell_look_up :
          /\ Cardinality(MetUnder(parent_cell_look_up[k].label)) = 2
          /\ \A n \in MetUnder(parent_cell_look_up[k].label) :
                 CollectedCells(labelset_dict[n].name, parent_cell_look_up[k].label)
                   # parent_cell_look_up[k].cell_ids

\* C12: when the pair about to be visited has an outer entry A with a parent
\* and an inner entry B, the skip test passes the pair over exactly when the
\* integer rank of A's parent is less than or equal to the integer rank of B,
\* ranks of two digits included.
C12_SkipOrdersRanksAsIntegers ==
    (/\ pc = "scan"
     /\ outer # inner
     /\ parent_cell_look_up[outer].parent # NoLabel) =>
        (Skipped(parent_cell_look_up, outer, inner)
           <=> int(parent_cell_look_up[outer].parent_rank)
                 <= int(parent_cell_look_up[inner].rank))

\* record k after its turn: with a resolved parent on its entry it names the
\* parent's label and the accession of the parent's entry; without one it is
\* the record as generated, which has neither parent field
ParentFieldsFollowEntry(k) ==
    IF EntryOfRecord(k).parent # NoLabel /\ EntryOfRecord(k).p_accession # NoAccession
    THEN /\ annotation_list[k].parent_cell_set_name = EntryOfRecord(k).parent
         /\ annotation_list[k].parent_cell_set_name # NoLabel
         /\ annotation_list[k].parent_cell_set_accession
              = ParentOf(parent_cell_look_up,
                         IndexOf(parent_cell_look_up,
                                 annotation_list[k].cell_label)).accession
         /\ annotation_list[k].parent_cell_set_accession # NoAccession
         /\ annotation_list[k].cell_label = EntryOfRecord(k).label
         /\ annotation_list[k].cell_set_accession = EntryOfRecord(k).accession
    ELSE annotation_list[k] = NewAnnotation(EntryOfRecord(k))

\* C13: after add_parent_hierarchy_to_annotations a record carries
\* parent_cell_set_name and parent_cell_set_accession exactly when the entry
\* under its cell_label has a resolved parent; the two fields are the parent's
\* label and the accession of the parent's entry, and the record of an
\* unparented entry has neither field and all its other fields as generated.
C13_ParentFieldsFollowEntry ==
    pc \in {"enrich", "enriched"} =>
        \A k \in DOMAIN annotation_list : k < position => ParentFieldsFollowEntry(k)

\* all records are processed: one names a parent whose accession differs from
\* its own, and the record of that parent has no parent fields
C13_Witness ==
    /\ pc = "enriched"
    /\ \E c, p \in DOMAIN annotation_list :
          /\ annotation_list[c].parent_cell_set_name = annotation_list[p].cell_label
          /\ annotation_list[c].parent_cell_set_accession = annotation_list[p].cell_set_accession
          /\ annotation_list[c].parent_cell_set_accession # annotation_list[c].cell_set_accession
          /\ annotation_list[p].parent_cell_set_name = NoLabel
          /\ annotation_list[p].parent_cell_set_accession = NoAccession

\* the root has a non-empty id and every labelset of the instance has an id
Populated(inst) ==
    /\ "id" \in DOMAIN inst
    /\ inst["id"] # <<>>
    /\ "labelsets" \in DOMAIN inst =>
           \A k \in DOMAIN inst["labelsets"] : "id" \in DOMAIN inst["labelsets"][k]

\* a call keeps every id that was present and gives a labelset that had none
\* the id namespace:name
KeepsGivenIds ==
    /\ "id" \in DOMAIN instance => instance'["id"] = instance["id"]
    /\ "labelsets" \in DOMAIN instance =>
          /\ "labelsets" \in DOMAIN instance'
          /\ DOMAIN instance'["labelsets"] = DOMAIN instance["labelsets"]
          /\ \A k \in DOMAIN instance["labelsets"] :
                IF "id" \in DOMAIN instance["labelsets"][k]
                THEN instance'["labelsets"][k] = instance["labelsets"][k]
                ELSE /\ "id" \in DOMAIN instance'["labelsets"][k]
                     /\ instance'["labelsets"][k]["id"]
                          = <<ontology_namespace, ":", instance["labelsets"][k]["name"]>>

\* the step is a call of populate_ids
CallsPopulateIds == pc \in {"ids", "returned"} /\ pc' = "returned"

\* a call on an instance that populate_ids returned changes nothing
SecondCallChangesNothing == pc = "returned" => instance' = instance

\* C14: for every dict input populate_ids returns an instance whose root has
\* a non-empty id and whose labelsets all have an id (namespace:name where
\* there was none), whether or not the root carried an id (empty or not)
\* before; ids already present stay, and a second call gives the same
\* instance as the first.
C14_PopulatesEveryId ==
    /\ [](pc = "returned" => Populated(instance))
    /\ [][CallsPopulateIds => KeepsGivenIds /\ SecondCallChangesNothing]_vars

====
